---- MODULE Spec2Model ----
(***************************************************************************)
(* A model of pywikigraph.WikiGraph (src/pywikigraph/wikigraph.py): the    *)
(* topic index, the sparse adjacency matrices with their lazily built      *)
(* views, and the double-ended breadth-first search of                     *)
(* get_shortest_paths_info with its count-only and enumerate modes.        *)
(*                                                                         *)
(* Conventions.  A topic string is the sequence of its character codes     *)
(* (<<83>> is "S"), so that lower-casing and the lexicographic order of    *)
(* sorted() are computed, not assumed.  Python's None is the empty set     *)
(* and a present optional value v is {v}.  Ids start at 0 as in the        *)
(* source; a Python list or array is a sequence, so that a[k] of the       *)
(* source is a[k + 1] here.  A value computed once and used several times  *)
(* in the source is passed on as an operator argument.                     *)
(***************************************************************************)
EXTENDS Integers, Sequences, FiniteSets, TLC

VARIABLES
    wg,         \* the WikiGraph object: its fields
    installed,  \* the argument of the latest set_graph call (history)
    calls,      \* how many set_graph calls were made (history)
    result,     \* the latest call and what it returned (history)
    inflight    \* the calls in progress on two threads, each at its line

vars == <<wg, installed, calls, result, inflight>>

(***************************************************************************)
(* Python values                                                           *)
(***************************************************************************)
None == {}

Some(v) == {v}

Val(o) == CHOOSE v \in o : TRUE

\* The ascending sequence of a finite set of integers.
RECURSIVE SortedSeq(_)
SortedSeq(S) ==
    IF S = {} THEN <<>>
    ELSE <<CHOOSE x \in S : \A y \in S : x <= y>>
            \o SortedSeq(S \ {CHOOSE x \in S : \A y \in S : x <= y})

(***************************************************************************)
(* get_standard: str.lower() on character codes                            *)
(***************************************************************************)
get_standard(topic) ==
    [i \in 1..Len(topic) |->
        IF topic[i] >= 65 /\ topic[i] <= 90 THEN topic[i] + 32 ELSE topic[i]]

(***************************************************************************)
(* scipy.sparse compressed matrices.  A matrix is                          *)
(*   [format, shape, indptr, indices, data]                                *)
(* with shape + 1 entries in indptr and one entry per stored element in    *)
(* indices and data.  For "csr" the major axis is the row, for "csc" the   *)
(* column.  Matrices are in canonical form: duplicates summed, no stored   *)
(* zero, minor indices ascending.                                          *)
(***************************************************************************)
\* One more major slice, holding the minor indices cols.
AppendSlice(m, x, cols, val) ==
    [m EXCEPT !.indptr  = Append(m.indptr, Len(m.indices) + Len(cols)),
              !.indices = m.indices \o cols,
              !.data    = m.data \o [k \in 1..Len(cols) |-> val[x, cols[k]]]]

\* The compressed matrix whose entry at (major x, minor y) is val[x, y],
\* built slice by slice from x on.
RECURSIVE Compress(_, _, _, _)
Compress(m, n, x, val) ==
    IF x >= n THEN m
    ELSE Compress(AppendSlice(m, x, SortedSeq({y \in 0..(n - 1) : val[x, y] # 0}), val),
                  n, x + 1, val)

EmptyMatrix(fmt, n) ==
    [format |-> fmt, shape |-> n, indptr |-> <<0>>, indices |-> <<>>, data |-> <<>>]

\* indices[indptr[k] : indptr[k + 1]] as a set
Slice(m, k) ==
    {m.indices[p + 1] : p \in m.indptr[k + 1]..(m.indptr[k + 2] - 1)}

\* The value stored at (major x, minor y), 0 when none is.
Stored(m, x, y) ==
    LET ps == {p \in m.indptr[x + 1]..(m.indptr[x + 2] - 1) : m.indices[p + 1] = y}
    IN IF ps = {} THEN 0 ELSE m.data[(CHOOSE p \in ps : TRUE) + 1]

\* The value a matrix holds at row i, column j.
Entry(m, i, j) ==
    IF m.format = "csr" THEN Stored(m, i, j) ELSE Stored(m, j, i)

\* csr_matrix((data, (rows, cols)), shape=[n, n]) with data all ones:
\* the entry at (i, j) is the number of times [i, j] is listed.
csr_matrix(vertices, n) ==
    Compress(EmptyMatrix("csr", n), n, 0,
             [i \in 0..(n - 1), j \in 0..(n - 1) |->
                Cardinality({k \in 1..Len(vertices) : vertices[k] = <<i, j>>})])

\* m.tocsc()
tocsc(m) ==
    Compress(EmptyMatrix("csc", m.shape), m.shape, 0,
             [j \in 0..(m.shape - 1), i \in 0..(m.shape - 1) |-> Entry(m, i, j)])

\* m.T: the same arrays, read along the other axis
Transpose(m) == [m EXCEPT !.format = IF m.format = "csr" THEN "csc" ELSE "csr"]

\* a + b for a CSR matrix a: the sum, in CSR
MatAdd(a, b) ==
    Compress(EmptyMatrix("csr", a.shape), a.shape, 0,
             [i \in 0..(a.shape - 1), j \in 0..(a.shape - 1) |->
                Entry(a, i, j) + Entry(b, i, j)])

(***************************************************************************)
(* WikiGraph.__init__                                                      *)
(***************************************************************************)
WikiGraph(optimize_memory) ==
    [m_adj_matrix_directed_csr   |-> None,
     m_adj_matrix_directed_csc   |-> None,
     m_adj_matrix_undirected_csr |-> None,
     m_adj_matrix_undirected_csc |-> None,
     m_optimize_memory           |-> optimize_memory,
     m_topic_index_map           |-> None,
     m_index_topic_map           |-> None]

(***************************************************************************)
(* set_graph                                                               *)
(***************************************************************************)
\* topic_idx = map.get(topic); if it is None, the next free idx is given.
\* acc is [map, idx, vertices].
Lookup(acc, topic) ==
    IF topic \in DOMAIN acc.map THEN acc.map[topic] ELSE acc.idx

Register(acc, topic) ==
    IF topic \in DOMAIN acc.map THEN acc
    ELSE [acc EXCEPT !.map = (topic :> acc.idx) @@ acc.map, !.idx = acc.idx + 1]

\* "for child in children": registers the child, lists [topic_idx, child_idx]
RECURSIVE SetGraphChildren(_, _, _, _)
SetGraphChildren(children, k, topic_idx, acc) ==
    IF k > Len(children) THEN acc
    ELSE SetGraphChildren(children, k + 1, topic_idx,
            [Register(acc, get_standard(children[k])) EXCEPT
                !.vertices = Append(acc.vertices,
                                    <<topic_idx, Lookup(acc, get_standard(children[k]))>>)])

\* "for topic, children in topic_children_tuples"
RECURSIVE SetGraphTuples(_, _, _)
SetGraphTuples(tuples, k, acc) ==
    IF k > Len(tuples) THEN acc
    ELSE SetGraphTuples(tuples, k + 1,
            SetGraphChildren(tuples[k][2], 1,
                             Lookup(acc, get_standard(tuples[k][1])),
                             Register(acc, get_standard(tuples[k][1]))))

\* Variant: a set_graph that leaves the derived caches as they are.
InstallGraphKeepingCaches(self, acc) ==
    [self EXCEPT
        !.m_topic_index_map         = Some(acc.map),
        !.m_adj_matrix_directed_csr = Some(csr_matrix(acc.vertices, acc.idx))]

\* Lines 138-144, with the index and the vertex list the loops built.
InstallGraph(self, acc) ==
    [self EXCEPT
        !.m_topic_index_map           = Some(acc.map),
        !.m_index_topic_map           = None,
        !.m_adj_matrix_directed_csr   = Some(csr_matrix(acc.vertices, acc.idx)),
        !.m_adj_matrix_directed_csc   = None,
        !.m_adj_matrix_undirected_csr = None,
        !.m_adj_matrix_undirected_csc = None]

set_graph(self, topic_children_tuples) ==
    InstallGraph(self, SetGraphTuples(topic_children_tuples, 1,
                                      [map |-> <<>>, idx |-> 0, vertices |-> <<>>]))

(***************************************************************************)
(* The lazily built views.  Each property returns [val, self]: the value  *)
(* read and the object after the read.  The loaders of the forward matrix  *)
(* and of the topic index (a file or a download) are outside the model:    *)
(* every operation below is taken on an object whose graph has been set.   *)
(***************************************************************************)
\* A view just built: it is stored in its field and returned.
Built(self, field, built) ==
    [val |-> built, self |-> [self EXCEPT ![field] = Some(built)]]

adj_matrix_directed_csr(self) ==
    [val |-> Val(self.m_adj_matrix_directed_csr), self |-> self]

adj_matrix_directed_csc(self) ==
    IF self.m_adj_matrix_directed_csc = None
    THEN Built(self, "m_adj_matrix_directed_csc",
               tocsc(adj_matrix_directed_csr(self).val))
    ELSE [val |-> Val(self.m_adj_matrix_directed_csc), self |-> self]

\* Variant: the sum without the transpose.
SumWithoutTranspose(a) == MatAdd(a, a)

\* self.adj_matrix_directed_csr + self.adj_matrix_directed_csr.T
SymmetricSum(a) == MatAdd(a, Transpose(a))

\* Under optimize_memory the field stays None and None is returned.
adj_matrix_undirected_csr(self) ==
    IF self.m_adj_matrix_undirected_csr = None /\ ~self.m_optimize_memory
    THEN Built(self, "m_adj_matrix_undirected_csr",
               SymmetricSum(adj_matrix_directed_csr(self).val))
    ELSE [val  |-> IF self.m_adj_matrix_undirected_csr = None THEN None
                   ELSE Val(self.m_adj_matrix_undirected_csr),
          self |-> self]

\* The CSC form of the undirected view the read u of adj_matrix_undirected_csr gave.
BuiltFrom(u, field) == Built(u.self, field, tocsc(u.val))

adj_matrix_undirected_csc(self) ==
    IF self.m_adj_matrix_undirected_csc = None /\ ~self.m_optimize_memory
    THEN BuiltFrom(adj_matrix_undirected_csr(self), "m_adj_matrix_undirected_csc")
    ELSE [val  |-> IF self.m_adj_matrix_undirected_csc = None THEN None
                   ELSE Val(self.m_adj_matrix_undirected_csc),
          self |-> self]

topic_index_map(self) ==
    [val |-> Val(self.m_topic_index_map), self |-> self]

\* {v: k for k, v in topic_index_map.items()}
InvertMap(map) ==
    [i \in {map[k] : k \in DOMAIN map} |-> CHOOSE k \in DOMAIN map : map[k] = i]

index_topic_map(self) ==
    IF self.m_index_topic_map = None
    THEN Built(self, "m_index_topic_map", InvertMap(topic_index_map(self).val))
    ELSE [val |-> Val(self.m_index_topic_map), self |-> self]

(***************************************************************************)
(* Neighbour lookups: each returns [res, self].                            *)
(***************************************************************************)
\* set(m.indices[m.indptr[topic] : m.indptr[topic + 1]]) of the view read
SliceOf(view, topic) ==
    [res |-> Slice(view.val, topic), self |-> view.self]

get_directed_children(self, topic) ==
    SliceOf(adj_matrix_directed_csr(self), topic)

get_directed_ancestors(self, topic) ==
    SliceOf(adj_matrix_directed_csc(self), topic)

\* children | ancestors
Union(children, ancestors) ==
    [res |-> children.res \cup ancestors.res, self |-> ancestors.self]

ChildrenOrAncestors(children, topic) ==
    Union(children, get_directed_ancestors(children.self, topic))

get_undirected_neighbors(self, topic) ==
    IF self.m_optimize_memory
    THEN ChildrenOrAncestors(get_directed_children(self, topic), topic)
    ELSE SliceOf(adj_matrix_undirected_csr(self), topic)

get_children_ids(self, topic, directed) ==
    IF directed THEN get_directed_children(self, topic)
    ELSE get_undirected_neighbors(self, topic)

\* Variant: _get_ancestors ignoring directed.
get_ancestors_ids_directed_only(self, topic, directed) ==
    get_directed_ancestors(self, topic)

get_ancestors_ids(self, topic, directed) ==
    IF directed THEN get_directed_ancestors(self, topic)
    ELSE get_undirected_neighbors(self, topic)

exists(self, topic) ==
    get_standard(topic) \in DOMAIN topic_index_map(self).val

(***************************************************************************)
(* get_shortest_paths_info: the search loop                                *)
(***************************************************************************)
\* "We will only consider paths with 6 degrees of separation."
MaxDepth == 6

\* The order in which a for loop visits a set of ids.  Nothing the loops
\* below compute depends on it.
IterOrder(S) == SortedSeq(S)

\* self._get_children(topic, directed) when expanding from the source,
\* self._get_ancestors(topic, directed) when expanding from the target
Neighbours(self, topic, directed, from_src) ==
    IF from_src THEN get_children_ids(self, topic, directed)
    ELSE get_ancestors_ids(self, topic, directed)

\* Variant: the book keeps the latest topic only, not all of them.
ExpandTopicOverwriting(topic, nb, visited, no_paths, acc) ==
    [self         |-> nb.self,
     new_frontier |-> acc.new_frontier \cup (nb.res \ visited),
     book         |-> IF no_paths
                      THEN [x \in DOMAIN acc.book |->
                              IF x \in nb.res \ visited
                              THEN acc.book[topic]
                              ELSE acc.book[x]]
                      ELSE [x \in DOMAIN acc.book |->
                              IF x \in nb.res \ visited
                              THEN {topic}
                              ELSE acc.book[x]]]

\* The body of "for topic in src_frontier" (and of its twin for the target
\* side) once the neighbours nb of topic are read.  acc is
\* [self, new_frontier, book], book being src_ancestors or tgt_children: a
\* count per id when no_paths, a set of ids per id otherwise (a
\* defaultdict: an absent key reads 0 or set()).
ExpandTopic(topic, nb, visited, no_paths, acc) ==
    LET unvisited == nb.res \ visited
    IN [self         |-> nb.self,
        new_frontier |-> acc.new_frontier \cup unvisited,
        book         |-> IF no_paths
                         THEN [x \in DOMAIN acc.book |->
                                 IF x \in unvisited
                                 THEN acc.book[x] + acc.book[topic]
                                 ELSE acc.book[x]]
                         ELSE [x \in DOMAIN acc.book |->
                                 IF x \in unvisited
                                 THEN acc.book[x] \cup {topic}
                                 ELSE acc.book[x]]]

RECURSIVE ExpandFrontier(_, _, _, _, _, _, _)
ExpandFrontier(order, k, visited, directed, no_paths, from_src, acc) ==
    IF k > Len(order) THEN acc
    ELSE ExpandFrontier(order, k + 1, visited, directed, no_paths, from_src,
            ExpandTopic(order[k],
                        Neighbours(acc.self, order[k], directed, from_src),
                        visited, no_paths, acc))

\* Variant: every id starts with the source (the target) on record.
SearchInitAllFromEnds(self, n, src_idx, tgt_idx, no_paths) ==
    [self          |-> self,
     src_frontier  |-> {src_idx},
     tgt_frontier  |-> {tgt_idx},
     src_visited   |-> {src_idx},
     tgt_visited   |-> {tgt_idx},
     src_ancestors |-> IF no_paths
                       THEN [x \in 0..(n - 1) |-> IF x = src_idx THEN 1 ELSE 0]
                       ELSE [x \in 0..(n - 1) |-> IF x = src_idx THEN {} ELSE {src_idx}],
     tgt_children  |-> IF no_paths
                       THEN [x \in 0..(n - 1) |-> IF x = tgt_idx THEN 1 ELSE 0]
                       ELSE [x \in 0..(n - 1) |-> IF x = tgt_idx THEN {} ELSE {tgt_idx}],
     deg_sep       |-> 0,
     bridge_topics |-> {},
     broke         |-> FALSE]

\* The state of the search before the loop (lines 204-226), n ids.
SearchInit(self, n, src_idx, tgt_idx, no_paths) ==
    [self          |-> self,
     src_frontier  |-> {src_idx},
     tgt_frontier  |-> {tgt_idx},
     src_visited   |-> {src_idx},
     tgt_visited   |-> {tgt_idx},
     src_ancestors |-> IF no_paths
                       THEN [x \in 0..(n - 1) |-> IF x = src_idx THEN 1 ELSE 0]
                       ELSE [x \in 0..(n - 1) |-> {}],
     tgt_children  |-> IF no_paths
                       THEN [x \in 0..(n - 1) |-> IF x = tgt_idx THEN 1 ELSE 0]
                       ELSE [x \in 0..(n - 1) |-> {}],
     deg_sep       |-> 0,
     bridge_topics |-> {},
     broke         |-> FALSE]

\* Lines 250-252 and 270-272: the expansion e becomes the frontier.
SourceExpanded(st, e) ==
    [st EXCEPT !.deg_sep       = st.deg_sep + 1,
               !.self          = e.self,
               !.src_ancestors = e.book,
               !.src_frontier  = e.new_frontier,
               !.src_visited   = st.src_visited \cup e.new_frontier]

TargetExpanded(st, e) ==
    [st EXCEPT !.deg_sep      = st.deg_sep + 1,
               !.self         = e.self,
               !.tgt_children = e.book,
               !.tgt_frontier = e.new_frontier,
               !.tgt_visited  = st.tgt_visited \cup e.new_frontier]

\* Variant: a search that expands from the source only.
SearchStepFromSourceOnly(st, directed, no_paths) ==
    SourceExpanded(st,
        ExpandFrontier(IterOrder(st.src_frontier), 1, st.src_visited,
                       directed, no_paths, TRUE,
                       [self |-> st.self, new_frontier |-> {},
                        book |-> st.src_ancestors]))

\* One iteration of the while loop, up to the break test.
SearchStep(st, directed, no_paths) ==
    IF ((st.deg_sep + 1) % 2) = 1
    THEN SourceExpanded(st,
            ExpandFrontier(IterOrder(st.src_frontier), 1, st.src_visited,
                           directed, no_paths, TRUE,
                           [self |-> st.self, new_frontier |-> {},
                            book |-> st.src_ancestors]))
    ELSE TargetExpanded(st,
            ExpandFrontier(IterOrder(st.tgt_frontier), 1, st.tgt_visited,
                           directed, no_paths, FALSE,
                           [self |-> st.self, new_frontier |-> {},
                            book |-> st.tgt_children]))

\* Lines 273-275: break (recorded in broke), or the bridge of the frontiers.
Bridge(st) ==
    IF st.src_frontier = {} \/ st.tgt_frontier = {}
    THEN [st EXCEPT !.broke = TRUE]
    ELSE [st EXCEPT !.bridge_topics = st.src_frontier \cap st.tgt_frontier]

\* Variant: "while deg_sep <= 6 and not bridge_topics".
RECURSIVE SearchLoopOneMore(_, _, _)
SearchLoopOneMore(st, directed, no_paths) ==
    IF st.broke \/ ~(st.deg_sep <= MaxDepth /\ st.bridge_topics = {}) THEN st
    ELSE SearchLoopOneMore(Bridge(SearchStep(st, directed, no_paths)), directed, no_paths)

\* Variant: "while not bridge_topics", the cutoff left out.
RECURSIVE SearchLoopWithoutCutoff(_, _, _)
SearchLoopWithoutCutoff(st, directed, no_paths) ==
    IF st.broke \/ st.bridge_topics # {} THEN st
    ELSE SearchLoopWithoutCutoff(Bridge(SearchStep(st, directed, no_paths)),
                                 directed, no_paths)

\* "while deg_sep < 6 and not bridge_topics"
RECURSIVE SearchLoop(_, _, _)
SearchLoop(st, directed, no_paths) ==
    IF st.broke \/ ~(st.deg_sep < MaxDepth /\ st.bridge_topics = {}) THEN st
    ELSE SearchLoop(Bridge(SearchStep(st, directed, no_paths)), directed, no_paths)

(***************************************************************************)
(* get_shortest_paths_info: path assembly.  A path under construction is   *)
(* [ids, names]: the ids not yet turned into topic names and the names of  *)
(* the part already converted (once the loop variable path is rebound to   *)
(* the converted list).  In the source half the ids come first, in the     *)
(* target half the names do.                                               *)
(***************************************************************************)
NamesOf(itm, ids) == [i \in 1..Len(ids) |-> itm[ids[i]]]

\* The completed path: lines 303-305 (backward) and 320 (forward).
Completed(itm, path, nxt, backward) ==
    IF backward THEN <<itm[nxt]>> \o NamesOf(itm, path.ids)
    ELSE NamesOf(itm, path.ids) \o <<itm[nxt]>>

\* One pass of "for ancestor in ancestors" (backward) or "for child in
\* children" (forward) for nxt: acc is [path, frontier, done, raised].
\* end_idx is src_idx or tgt_idx.  raised: the KeyError of
\* index_topic_map[x] for an x that is already a name.
AssembleOne(nxt, end_idx, itm, backward, acc) ==
    IF nxt = end_idx
    THEN IF acc.path.names # <<>>
         THEN [acc EXCEPT !.raised = TRUE]
         ELSE [acc EXCEPT
                !.path = [ids |-> <<>>, names |-> Completed(itm, acc.path, nxt, backward)],
                !.done = Append(acc.done, Completed(itm, acc.path, nxt, backward))]
    ELSE [acc EXCEPT
            !.frontier = Append(acc.frontier,
                [ids   |-> IF backward THEN <<nxt>> \o acc.path.ids
                           ELSE Append(acc.path.ids, nxt),
                 names |-> acc.path.names]),
            !.mixed = acc.mixed \/ acc.path.names # <<>>]

RECURSIVE AssembleInner(_, _, _, _, _, _)
AssembleInner(order, k, end_idx, itm, backward, acc) ==
    IF k > Len(order) \/ acc.raised THEN acc
    ELSE AssembleInner(order, k + 1, end_idx, itm, backward,
                       AssembleOne(order[k], end_idx, itm, backward, acc))

\* path = frontier.popleft(); ancestors = src_ancestors[path[0]]
\* (children = tgt_children[path[-1]] forward)
Popped(st, book, backward) ==
    [order    |-> IterOrder(book[IF backward THEN Head(st.frontier).ids[1]
                                 ELSE Head(st.frontier).ids[Len(Head(st.frontier).ids)]]),
     path     |-> Head(st.frontier),
     frontier |-> Tail(st.frontier),
     done     |-> st.done,
     raised   |-> FALSE,
     pops     |-> st.pops + 1,
     mixed    |-> st.mixed]

\* "while frontier: ..."; st is [frontier, done, raised, pops, mixed], pops
\* counting the popleft() calls made so far, mixed telling whether a list
\* of ids and names together was ever appended to the queue.
RECURSIVE AssembleLoop(_, _, _, _, _)
AssembleLoop(st, book, end_idx, itm, backward) ==
    IF st.frontier = <<>> \/ st.raised THEN st
    ELSE AssembleLoop(
            AssembleInner(Popped(st, book, backward).order, 1, end_idx, itm, backward,
                          Popped(st, book, backward)),
            book, end_idx, itm, backward)

\* deque([[bridge_topic] for bridge_topic in bridge_topics])
SeedFrontier(order) ==
    [frontier |-> [i \in 1..Len(order) |-> [ids |-> <<order[i]>>, names |-> <<>>]],
     done     |-> <<>>,
     raised   |-> FALSE,
     pops     |-> 0,
     mixed    |-> FALSE]

RECURSIVE Flatten(_)
Flatten(lists) ==
    IF lists = <<>> THEN <<>> ELSE Head(lists) \o Flatten(Tail(lists))

\* Variant: source halves filed under their first topic.
FiledUnderFirstOfSourceHalf(done, topic) == SelectSeq(done, LAMBDA q : q[1] = topic)

\* src_to_bridge_paths[topic] / bridge_to_tgt_paths[topic]: the completed
\* paths filed under the bridge topic, in the order they were completed.
FiledUnderLast(done, topic) == SelectSeq(done, LAMBDA q : q[Len(q)] = topic)

FiledUnderFirst(done, topic) == SelectSeq(done, LAMBDA q : q[1] = topic)

\* Variant: src_to_bridge_path + bridge_to_tgt_path, the bridge topic twice.
JoinAtKeepingBridge(ss, ts) ==
    Flatten([i \in 1..Len(ss) |-> [j \in 1..Len(ts) |-> ss[i] \o ts[j]]])

\* All src_to_bridge_path + bridge_to_tgt_path[1:] of one bridge topic
JoinAt(ss, ts) ==
    Flatten([i \in 1..Len(ss) |-> [j \in 1..Len(ts) |-> ss[i] \o Tail(ts[j])]])

\* The cross-join comprehension (lines 328-334).
CrossJoin(bridge_names, src_to_bridge_paths, bridge_to_tgt_paths) ==
    Flatten([b \in 1..Len(bridge_names) |->
                JoinAt(FiledUnderLast(src_to_bridge_paths, bridge_names[b]),
                       FiledUnderFirst(bridge_to_tgt_paths, bridge_names[b]))])

(***************************************************************************)
(* sorted(paths): lists of strings in lexicographic order                  *)
(***************************************************************************)
RECURSIVE StrLess(_, _)
StrLess(a, b) ==
    IF a = <<>> THEN b # <<>>
    ELSE IF b = <<>> THEN FALSE
    ELSE IF Head(a) # Head(b) THEN Head(a) < Head(b)
    ELSE StrLess(Tail(a), Tail(b))

RECURSIVE PathLess(_, _)
PathLess(p, q) ==
    IF p = <<>> THEN q # <<>>
    ELSE IF q = <<>> THEN FALSE
    ELSE IF Head(p) # Head(q) THEN StrLess(Head(p), Head(q))
    ELSE PathLess(Tail(p), Tail(q))

RECURSIVE Insert(_, _)
Insert(sortedList, p) ==
    IF sortedList = <<>> THEN <<p>>
    ELSE IF PathLess(p, Head(sortedList)) THEN <<p>> \o sortedList
    ELSE <<Head(sortedList)>> \o Insert(Tail(sortedList), p)

RECURSIVE sorted(_)
sorted(paths) ==
    IF paths = <<>> THEN <<>>
    ELSE Insert(sorted(SubSeq(paths, 1, Len(paths) - 1)), paths[Len(paths)])

(***************************************************************************)
(* get_shortest_paths_info.  Returns [ret, self]; ret is the triple        *)
(* [degrees, count, paths], paths being None or a list, or                 *)
(* [raised |-> "KeyError"] when the call ends in that exception.           *)
(***************************************************************************)
Triple(degrees, count, paths) ==
    [degrees |-> degrees, count |-> count, paths |-> paths]

\* Variant: (-1, 0, []) whatever no_paths is.
NotFoundAlwaysList(no_paths) ==
    [degrees |-> -1, count |-> 0, paths |-> Some(<<>>)]

\* (-1, 0, None if no_paths else [])
NotFound(no_paths) == Triple(-1, 0, IF no_paths THEN None ELSE Some(<<>>))

\* Variant: the number of bridge topics, not of the paths through them.
BridgeTopicsCounted(order, k, src_ancestors, tgt_children) == Len(order)

\* sum([src_ancestors[topic] * tgt_children[topic] for topic in bridge_topics])
RECURSIVE BridgeSum(_, _, _, _)
BridgeSum(order, k, src_ancestors, tgt_children) ==
    IF k > Len(order) THEN 0
    ELSE src_ancestors[order[k]] * tgt_children[order[k]]
            + BridgeSum(order, k + 1, src_ancestors, tgt_children)

\* (deg_sep, len(paths), sorted(paths))
Enumerated(deg_sep, paths) == Triple(deg_sep, Len(paths), Some(sorted(paths)))

\* Lines 325-336, with the two halves assembled.
Assembled(deg_sep, src_half, tgt_half, bridge_names) ==
    IF src_half.raised \/ tgt_half.raised
    THEN [raised |-> "KeyError"]
    ELSE Enumerated(deg_sep, CrossJoin(bridge_names, src_half.done, tgt_half.done))

\* Lines 277-336: what follows the loop.
AfterSearch(st, source, target, src_idx, tgt_idx, itm, no_paths) ==
    IF st.bridge_topics = {}
    THEN NotFound(no_paths)
    ELSE IF tgt_idx \in st.bridge_topics
    THEN Triple(st.deg_sep, 1, IF no_paths THEN None ELSE Some(<< <<source, target>> >>))
    ELSE IF no_paths
    THEN Triple(st.deg_sep,
                BridgeSum(IterOrder(st.bridge_topics), 1, st.src_ancestors, st.tgt_children),
                None)
    ELSE Assembled(st.deg_sep,
                   AssembleLoop(SeedFrontier(IterOrder(st.bridge_topics)),
                                st.src_ancestors, src_idx, itm, TRUE),
                   AssembleLoop(SeedFrontier(IterOrder(st.bridge_topics)),
                                st.tgt_children, tgt_idx, itm, FALSE),
                   NamesOf(itm, IterOrder(st.bridge_topics)))

\* The value returned and the object as the search st left it.
Searched(st, source, target, src_idx, tgt_idx, itm, no_paths) ==
    [ret  |-> AfterSearch(st, source, target, src_idx, tgt_idx, itm, no_paths),
     self |-> st.self]

\* Lines 204-336, with both maps read: tim the topic index, itm the read
\* of index_topic_map.
Search(source, target, tim, itm, directed, no_paths) ==
    Searched(SearchLoop(SearchInit(itm.self,
                                   adj_matrix_directed_csr(itm.self).val.shape,
                                   tim[source], tim[target], no_paths),
                        directed, no_paths),
             source, target, tim[source], tim[target], itm.val, no_paths)

get_shortest_paths_info(self, source, target, directed, no_paths) ==
    IF ~exists(self, get_standard(source))
    THEN [ret |-> NotFound(no_paths), self |-> self]
    ELSE IF ~exists(self, get_standard(target))
    THEN [ret |-> NotFound(no_paths), self |-> self]
    ELSE IF get_standard(source) = get_standard(target)
    THEN [ret  |-> Triple(0, 1, IF no_paths THEN None
                                ELSE Some(<< <<get_standard(source)>> >>)),
          self |-> self]
    ELSE Search(get_standard(source), get_standard(target),
                topic_index_map(self).val, index_topic_map(self), directed, no_paths)

(***************************************************************************)
(* get_children, get_ancestors: [ret, self], ret being [value |-> names]   *)
(* or [raised |-> "KeyError"] for a topic the index does not hold.         *)
(***************************************************************************)
\* {index_topic_map[idx] for idx in ...}
Named(itm, r) ==
    [ret |-> [value |-> {itm[idx] : idx \in r.res}], self |-> r.self]

\* itm is the read of index_topic_map, made first.
ChildrenOf(topic, itm, directed) ==
    IF topic \notin DOMAIN topic_index_map(itm.self).val
    THEN [ret |-> [raised |-> "KeyError"], self |-> itm.self]
    ELSE Named(itm.val,
               get_children_ids(itm.self, topic_index_map(itm.self).val[topic], directed))

AncestorsOf(topic, itm, directed) ==
    IF topic \notin DOMAIN topic_index_map(itm.self).val
    THEN [ret |-> [raised |-> "KeyError"], self |-> itm.self]
    ELSE Named(itm.val,
               get_ancestors_ids(itm.self, topic_index_map(itm.self).val[topic], directed))

get_children(self, topic, directed) ==
    ChildrenOf(get_standard(topic), index_topic_map(self), directed)

get_ancestors(self, topic, directed) ==
    AncestorsOf(get_standard(topic), index_topic_map(self), directed)

(***************************************************************************)
(* Inputs.  Topics are one-letter strings; 97..104 are "a".."h", 65 "A",   *)
(* 66 "B", 68 "D", 122 "z".  A set_graph argument is a list of             *)
(* <<topic, children>> like DEMO_GRAPH_NODE_CHILDREN of the tests.         *)
(***************************************************************************)
\* How many tuples of ExtraTuples an argument may draw on.
PoolSize == 5

\* How many tuples the arguments of repeated set_graph calls may hold.
MaxLifeTuples == 1

\* How many set_graph calls one object receives.
MaxSetGraphCalls == 2

\* ("a", ["b"]), ("b", ["c"]), ..., ("g", ["h"]): a chain of 7 edges, so
\* that "a" to "h" is one step beyond the cutoff.
ChainTuples ==
    [i \in 1..7 |-> << <<96 + i>>, << <<97 + i>> >> >>]

ExtraTuples ==
    << << <<97>>,  << <<99>> >> >>,                    \* ("a", ["c"])
       << <<98>>,  << <<100>> >> >>,                   \* ("b", ["d"])
       << <<101>>, << <<103>> >> >>,                   \* ("e", ["g"])
       << <<102>>, << <<104>> >> >>,                   \* ("f", ["h"])
       << <<68>>,  << <<100>>, <<66>>, <<98>> >> >>,   \* ("D", ["d", "B", "b"])
       << <<104>>, << <<97>> >> >>,                    \* ("h", ["a"])
       << <<65>>,  << <<66>>, <<98>> >> >>,            \* ("A", ["B", "b"])
       << <<99>>,  << <<103>>, <<97>> >> >> >>         \* ("c", ["g", "a"])

Pool == 1..(IF PoolSize < Len(ExtraTuples) THEN PoolSize ELSE Len(ExtraTuples))

\* The chosen tuples of ExtraTuples, in their order.
Chosen(S) == [i \in 1..Cardinality(S) |-> ExtraTuples[SortedSeq(S)[i]]]

\* Arguments with at least one edge: the chain or not, then any choice of
\* extra tuples.
Inputs ==
    {ChainTuples \o Chosen(S) : S \in SUBSET Pool}
        \cup {Chosen(S) : S \in (SUBSET Pool) \ {{}}}

LifeInputs == {input \in Inputs : Len(input) <= MaxLifeTuples}

\* Topics a caller asks about: "a".."h", "A", and "z", which no graph holds.
QueryTopics == {<<c>> : c \in 97..104} \cup {<<65>>, <<122>>}

(***************************************************************************)
(* The state machine                                                       *)
(***************************************************************************)
GraphSet == wg.m_adj_matrix_directed_csr # None /\ wg.m_topic_index_map # None

\* No call is in progress on either thread.
NoCalls == [writer |-> [pc |-> "idle"], reader |-> [pc |-> "idle"]]

\* Calls are made one after the other: the caller has taken the value of
\* the call before.
Idle == result.op = "idle"

Init ==
    /\ \E optimize_memory \in BOOLEAN : wg = WikiGraph(optimize_memory)
    /\ installed = <<>>
    /\ calls = 0
    /\ result = [op |-> "idle"]
    /\ inflight = NoCalls

SetGraph ==
    \E input \in LifeInputs :
        /\ Idle
        /\ calls < MaxSetGraphCalls
        /\ wg' = set_graph(wg, input)
        /\ installed' = input
        /\ calls' = calls + 1
        /\ result' = [op |-> "set_graph"]
        /\ UNCHANGED inflight

GetShortestPathsInfo ==
    /\ Idle
    /\ GraphSet
    /\ \E source \in QueryTopics, target \in QueryTopics,
          directed \in BOOLEAN, no_paths \in BOOLEAN :
            \E r \in {get_shortest_paths_info(wg, source, target, directed, no_paths)} :
               /\ wg' = r.self
               /\ result' = [op |-> "get_shortest_paths_info",
                             source |-> source, target |-> target,
                             directed |-> directed, no_paths |-> no_paths,
                             ret |-> r.ret]
    /\ UNCHANGED <<installed, calls, inflight>>

GetChildren ==
    /\ Idle
    /\ GraphSet
    /\ \E topic \in QueryTopics, directed \in BOOLEAN :
            \E r \in {get_children(wg, topic, directed)} :
               /\ wg' = r.self
               /\ result' = [op |-> "get_children", topic |-> topic,
                             directed |-> directed, ret |-> r.ret]
    /\ UNCHANGED <<installed, calls, inflight>>

GetAncestors ==
    /\ Idle
    /\ GraphSet
    /\ \E topic \in QueryTopics, directed \in BOOLEAN :
            \E r \in {get_ancestors(wg, topic, directed)} :
               /\ wg' = r.self
               /\ result' = [op |-> "get_ancestors", topic |-> topic,
                             directed |-> directed, ret |-> r.ret]
    /\ UNCHANGED <<installed, calls, inflight>>

\* A read of the adj_matrix_undirected_csc property.
ReadUndirectedCsc ==
    /\ Idle
    /\ GraphSet
    /\ wg' = adj_matrix_undirected_csc(wg).self
    /\ result' = [op |-> "adj_matrix_undirected_csc"]
    /\ UNCHANGED <<installed, calls, inflight>>

\* The caller takes the returned value; the object is as the call left it.
Return ==
    /\ ~Idle
    /\ result' = [op |-> "idle"]
    /\ UNCHANGED <<wg, installed, calls, inflight>>

Next ==
    \/ SetGraph
    \/ GetShortestPathsInfo
    \/ GetChildren
    \/ GetAncestors
    \/ ReadUndirectedCsc
    \/ Return

\* Any sequence of set_graph calls and queries on one object.
Spec == Init /\ [][Next]_vars

\* An object on which set_graph has been called once (the fixtures of the
\* tests), then asked one question.
InitSearch ==
    \E optimize_memory \in BOOLEAN, input \in Inputs :
        /\ wg = set_graph(WikiGraph(optimize_memory), input)
        /\ installed = input
        /\ calls = 1
        /\ result = [op |-> "idle"]
        /\ inflight = NoCalls

NextSearch ==
    \/ GetShortestPathsInfo
    \/ GetChildren
    \/ GetAncestors

SpecSearch == InitSearch /\ [][NextSearch]_vars

(***************************************************************************)
(* Two threads on one object, with no lock (the class takes none): one     *)
(* calls set_graph, the other get_ancestors(topic) with directed=True.     *)
(* A step is one statement of set_graph, or one read of the object by the  *)
(* query (a property read, with what it builds and stores).                *)
(***************************************************************************)
Writer == inflight.writer

Reader == inflight.reader

\* Line 119: self._topic_index_map = {}
SetGraphClearIndex ==
    \E input \in LifeInputs :
        /\ Writer.pc = "idle"
        /\ calls < MaxSetGraphCalls
        /\ wg' = [wg EXCEPT !.m_topic_index_map = Some(<<>>)]
        /\ inflight' = [inflight EXCEPT !.writer =
                          [pc |-> "line120", tuples |-> input, k |-> 1, j |-> 0,
                           acc |-> [map |-> <<>>, idx |-> 0, vertices |-> <<>>]]]
        /\ UNCHANGED <<installed, calls, result>>

\* Line 120: self._index_topic_map = None
SetGraphClearReverseIndex ==
    /\ Writer.pc = "line120"
    /\ wg' = [wg EXCEPT !.m_index_topic_map = None]
    /\ inflight' = [inflight EXCEPT !.writer.pc = "loop"]
    /\ UNCHANGED <<installed, calls, result>>

\* The writer after the entry acc was made for tuple k: inside the tuple's
\* children (j), or at the next tuple.
Advanced(w, acc, j) ==
    IF j > Len(w.tuples[w.k][2])
    THEN [w EXCEPT !.acc = acc, !.k = w.k + 1, !.j = 0]
    ELSE [w EXCEPT !.acc = acc, !.j = j]

\* Lines 124-129: the topic of tuple k enters the index, which is the
\* dictionary the object holds.
SetGraphTopic ==
    /\ Writer.pc = "loop"
    /\ Writer.k <= Len(Writer.tuples)
    /\ Writer.j = 0
    /\ \E acc \in {Register(Writer.acc, get_standard(Writer.tuples[Writer.k][1]))} :
          /\ wg' = [wg EXCEPT !.m_topic_index_map = Some(acc.map)]
          /\ inflight' = [inflight EXCEPT !.writer = Advanced(Writer, acc, 1)]
    /\ UNCHANGED <<installed, calls, result>>

\* Lines 130-137: child j of tuple k.
SetGraphChild ==
    /\ Writer.pc = "loop"
    /\ Writer.k <= Len(Writer.tuples)
    /\ Writer.j >= 1
    /\ \E acc \in {SetGraphChildren(
                      <<Writer.tuples[Writer.k][2][Writer.j]>>, 1,
                      Writer.acc.map[get_standard(Writer.tuples[Writer.k][1])],
                      Writer.acc)} :
          /\ wg' = [wg EXCEPT !.m_topic_index_map = Some(acc.map)]
          /\ inflight' = [inflight EXCEPT !.writer = Advanced(Writer, acc, Writer.j + 1)]
    /\ UNCHANGED <<installed, calls, result>>

\* Lines 138-141: self._adj_matrix_directed_csr = csr_matrix(...)
SetGraphMatrix ==
    /\ Writer.pc = "loop"
    /\ Writer.k > Len(Writer.tuples)
    /\ wg' = [wg EXCEPT !.m_adj_matrix_directed_csr =
                          Some(csr_matrix(Writer.acc.vertices, Writer.acc.idx))]
    /\ inflight' = [inflight EXCEPT !.writer.pc = "line142"]
    /\ UNCHANGED <<installed, calls, result>>

\* Line 142: self._adj_matrix_directed_csc = None
SetGraphClearCsc ==
    /\ Writer.pc = "line142"
    /\ wg' = [wg EXCEPT !.m_adj_matrix_directed_csc = None]
    /\ inflight' = [inflight EXCEPT !.writer.pc = "line143"]
    /\ UNCHANGED <<installed, calls, result>>

\* Line 143: self._adj_matrix_undirected_csr = None
SetGraphClearUndirectedCsr ==
    /\ Writer.pc = "line143"
    /\ wg' = [wg EXCEPT !.m_adj_matrix_undirected_csr = None]
    /\ inflight' = [inflight EXCEPT !.writer.pc = "line144"]
    /\ UNCHANGED <<installed, calls, result>>

\* Line 144: self._adj_matrix_undirected_csc = None, and set_graph returns.
SetGraphClearUndirectedCsc ==
    /\ Writer.pc = "line144"
    /\ wg' = [wg EXCEPT !.m_adj_matrix_undirected_csc = None]
    /\ installed' = Writer.tuples
    /\ calls' = calls + 1
    /\ inflight' = [inflight EXCEPT !.writer = [pc |-> "idle"]]
    /\ UNCHANGED result

\* Lines 369-370 of get_ancestors: index_topic_map = self.index_topic_map
QueryReadReverseIndex ==
    /\ Reader.pc = "idle"
    /\ Idle
    /\ wg.m_topic_index_map # None
    /\ \E topic \in QueryTopics :
          \E itm \in {index_topic_map(wg)} :
             /\ wg' = itm.self
             /\ inflight' = [inflight EXCEPT !.reader =
                               [pc |-> "line373", topic |-> get_standard(topic),
                                itm |-> itm.val]]
    /\ UNCHANGED <<installed, calls, result>>

Returned(ret) ==
    [op |-> "get_ancestors", topic |-> Reader.topic, directed |-> TRUE, ret |-> ret]

\* Line 373: self.topic_index_map[topic]
QueryReadIndex ==
    /\ Reader.pc = "line373"
    /\ IF Reader.topic \in DOMAIN topic_index_map(wg).val
       THEN /\ inflight' = [inflight EXCEPT !.reader =
                               [pc |-> "line413", topic |-> Reader.topic,
                                itm |-> Reader.itm,
                                idx |-> topic_index_map(wg).val[Reader.topic]]]
            /\ UNCHANGED result
       ELSE /\ inflight' = [inflight EXCEPT !.reader = [pc |-> "idle"]]
            /\ result' = Returned([raised |-> "KeyError"])
    /\ UNCHANGED <<wg, installed, calls>>

\* What lines 414-418 and 371-374 make of the view read: the slice of idx,
\* and the names of its ids.
AncestorsRead(view, idx, itm) ==
    IF idx + 2 > Len(view.indptr) THEN [raised |-> "IndexError"]
    ELSE IF \E i \in Slice(view, idx) : i \notin DOMAIN itm
    THEN [raised |-> "KeyError"]
    ELSE [value |-> {itm[i] : i \in Slice(view, idx)}]

\* Line 413: adj_mat_csc = self.adj_matrix_directed_csc, and the return.
QueryReadCsc ==
    /\ Reader.pc = "line413"
    /\ wg.m_adj_matrix_directed_csr # None
    /\ \E view \in {adj_matrix_directed_csc(wg)} :
          /\ wg' = view.self
          /\ result' = Returned(AncestorsRead(view.val, Reader.idx, Reader.itm))
    /\ inflight' = [inflight EXCEPT !.reader = [pc |-> "idle"]]
    /\ UNCHANGED <<installed, calls>>

\* A read of adj_matrix_undirected_csc by the querying thread.
QueryReadUndirectedCsc ==
    /\ Reader.pc = "idle"
    /\ wg.m_topic_index_map # None
    /\ ReadUndirectedCsc

InitConcurrent ==
    \E optimize_memory \in BOOLEAN, input \in LifeInputs :
        /\ wg = set_graph(WikiGraph(optimize_memory), input)
        /\ installed = input
        /\ calls = 1
        /\ result = [op |-> "idle"]
        /\ inflight = NoCalls

NextConcurrent ==
    \/ SetGraphClearIndex
    \/ SetGraphClearReverseIndex
    \/ SetGraphTopic
    \/ SetGraphChild
    \/ SetGraphMatrix
    \/ SetGraphClearCsc
    \/ SetGraphClearUndirectedCsr
    \/ SetGraphClearUndirectedCsc
    \/ QueryReadReverseIndex
    \/ QueryReadIndex
    \/ QueryReadCsc
    \/ QueryReadUndirectedCsc
    \/ Return

SpecConcurrent == InitConcurrent /\ [][NextConcurrent]_vars

(***************************************************************************)
(* What the claims are measured against: the graph the latest set_graph    *)
(* argument describes, its distances by plain breadth-first layers, and    *)
(* its shortest paths by walking those layers forward from the source.     *)
(***************************************************************************)
TrueEdges(tuples) ==
    UNION {{<<get_standard(tuples[k][1]), get_standard(tuples[k][2][j])>> :
                j \in 1..Len(tuples[k][2])} : k \in 1..Len(tuples)}

TrueTopics(tuples) ==
    {get_standard(tuples[k][1]) : k \in 1..Len(tuples)}
        \cup {e[2] : e \in TrueEdges(tuples)}

\* The topics one edge away from u.
TrueNext(E, u, directed) ==
    {e[2] : e \in {f \in E : f[1] = u}}
        \cup (IF directed THEN {} ELSE {e[1] : e \in {f \in E : f[2] = u}})

RECURSIVE TrueGrow(_, _, _, _, _)
TrueGrow(E, layers, reached, directed, next) ==
    IF next = {} THEN layers
    ELSE TrueGrow(E, Append(layers, next), reached \cup next, directed,
                  (UNION {TrueNext(E, u, directed) : u \in next}) \ (reached \cup next))

\* layers[k + 1] holds the topics at distance exactly k from s.
TrueLayers(E, s, directed) ==
    TrueGrow(E, <<{s}>>, {s}, directed, TrueNext(E, s, directed) \ {s})

\* The number of edges of a shortest path to t, -1 when there is none.
TrueDistance(layers, t) ==
    IF \E k \in 1..Len(layers) : t \in layers[k]
    THEN (CHOOSE k \in 1..Len(layers) : t \in layers[k]) - 1
    ELSE -1

\* The paths of k topics that start at the source and advance one layer
\* per step: the shortest paths to their last topic.
RECURSIVE TruePathsAlong(_, _, _, _)
TruePathsAlong(E, layers, k, directed) ==
    IF k = 1 THEN {<<u>> : u \in layers[1]}
    ELSE UNION {{Append(w, v) : v \in TrueNext(E, w[Len(w)], directed) \cap layers[k]} :
                    w \in TruePathsAlong(E, layers, k - 1, directed)}

\* All shortest paths to t, as lists of topics.
TrueShortestPaths(E, layers, t, directed) ==
    IF TrueDistance(layers, t) = -1 THEN {}
    ELSE {w \in TruePathsAlong(E, layers, TrueDistance(layers, t) + 1, directed) :
            w[Len(w)] = t}

\* The latest call was get_shortest_paths_info and returned a triple.
IsQuery == result.op = "get_shortest_paths_info" /\ "degrees" \in DOMAIN result.ret

\* ... with both topics known and different.
IsSearch ==
    /\ IsQuery
    /\ get_standard(result.source) \in TrueTopics(installed)
    /\ get_standard(result.target) \in TrueTopics(installed)
    /\ get_standard(result.source) # get_standard(result.target)

QueryLayers ==
    TrueLayers(TrueEdges(installed), get_standard(result.source), result.directed)

QueryDistance == TrueDistance(QueryLayers, get_standard(result.target))

\* The shortest paths of the query, none when they are longer than 6 edges.
QueryPaths ==
    IF QueryDistance > 6 THEN {}
    ELSE TrueShortestPaths(TrueEdges(installed), QueryLayers,
                           get_standard(result.target), result.directed)

SetOf(list) == {list[i] : i \in 1..Len(list)}

(***************************************************************************)
(* The claims                                                              *)
(***************************************************************************)
DegreesMatch(degrees, d) ==
    /\ (d >= 1 /\ d <= 6) => degrees = d
    /\ degrees = -1 <=> (d = -1 \/ d > 6)

\* C1: for known topics source # target, directed or not, degrees is the
\* true shortest-path distance whenever that is at most 6, and degrees is
\* -1 exactly when no path of at most 6 edges exists.
C1_DegreesAreDistance ==
    IsSearch => DegreesMatch(result.ret.degrees, QueryDistance)

C1_Witness ==
    /\ IsSearch
    /\ result.ret.degrees = 6
    /\ ~result.directed

AllOnce(count, list, truth) ==
    /\ SetOf(list) = truth
    /\ Len(list) = Cardinality(truth)
    /\ count = Cardinality(truth)

WellFormedPath(path, degrees, source, target, E, directed) ==
    /\ Len(path) = degrees + 1
    /\ path[1] = source
    /\ path[Len(path)] = target
    /\ \A i \in 1..Len(path), j \in 1..Len(path) : path[i] = path[j] => i = j
    /\ \A i \in 1..(Len(path) - 1) :
          \/ <<path[i], path[i + 1]>> \in E
          \/ ~directed /\ <<path[i + 1], path[i]>> \in E

\* C3: in enumerate mode every returned path has degrees + 1 nodes, begins
\* with canonicalize(source), ends with canonicalize(target), repeats no
\* node, and each consecutive pair is an edge (in either direction when
\* undirected).
C3_PathsWellFormed ==
    (IsQuery /\ ~result.no_paths) =>
        /\ result.ret.paths # None
        /\ \A path \in SetOf(Val(result.ret.paths)) :
              WellFormedPath(path, result.ret.degrees,
                             get_standard(result.source), get_standard(result.target),
                             TrueEdges(installed), result.directed)

C3_Witness ==
    /\ IsSearch
    /\ ~result.no_paths
    /\ result.ret.count >= 2
    /\ result.ret.degrees = 6

SameCounts(enumerated, counted) ==
    /\ enumerated.degrees = counted.degrees
    /\ enumerated.count = counted.count
    /\ counted.paths = None
    /\ enumerated.paths # None
    /\ Len(Val(enumerated.paths)) = counted.count

\* The latest query asked again in the other mode, on the same object.
OtherMode ==
    get_shortest_paths_info(wg, result.source, result.target,
                            result.directed, ~result.no_paths).ret

\* C4: for every source, target and directed flag the count-only run and
\* the enumerate run return the same degrees and the same count, and the
\* count of the count-only run is the length of the enumerate run's list.
C4_CountOnlyAgreesWithEnumerate ==
    IsQuery =>
        IF result.no_paths THEN SameCounts(OtherMode, result.ret)
        ELSE SameCounts(result.ret, OtherMode)

C4_Witness ==
    /\ IsSearch
    /\ result.no_paths
    /\ result.ret.count >= 4
    /\ result.ret.degrees >= 3

\* C5: in enumerate mode degrees = -1, count = 0 and paths = [] are
\* equivalent; a non-empty bridge yields at least one path.
C5_NotFoundEquivalences ==
    (IsQuery /\ ~result.no_paths) =>
        /\ result.ret.degrees = -1 <=> result.ret.count = 0
        /\ result.ret.count = 0 <=> result.ret.paths = Some(<<>>)

C5_Witness ==
    /\ IsSearch
    /\ ~result.no_paths
    /\ result.ret.degrees >= 3
    /\ result.ret.count >= 1
    /\ result.ret.paths # Some(<<>>)

\* An object built with the other optimize_memory setting, given the same graph.
OtherSetting == set_graph(WikiGraph(~wg.m_optimize_memory), installed)

SameCall(self) ==
    IF result.op = "get_shortest_paths_info"
    THEN get_shortest_paths_info(self, result.source, result.target,
                                 result.directed, result.no_paths).ret
    ELSE IF result.op = "get_children"
    THEN get_children(self, result.topic, result.directed).ret
    ELSE get_ancestors(self, result.topic, result.directed).ret

IsCall == result.op \in {"get_shortest_paths_info", "get_children", "get_ancestors"}

\* The undirected neighbours of every id: the slice of the materialized
\* A + A^T view against successors | predecessors.
SameNeighbours(materialized, computed) ==
    \A v \in 0..(Val(materialized.m_adj_matrix_directed_csr).shape - 1) :
        get_undirected_neighbors(materialized, v).res
            = get_undirected_neighbors(computed, v).res

BothSettings(self, other) ==
    IF self.m_optimize_memory
    THEN SameNeighbours(adj_matrix_undirected_csr(other).self, self)
    ELSE SameNeighbours(adj_matrix_undirected_csr(self).self, other)

\* C6: optimize_memory changes no result: the undirected neighbour set of
\* every node is the same sliced from the materialized view and computed as
\* successors | predecessors, get_children, get_ancestors and
\* get_shortest_paths_info return the same under both settings, and with
\* directed=False get_children(v) = get_ancestors(v).
C6_OptimizeMemoryChangesNothing ==
    /\ (Idle /\ GraphSet) => BothSettings(wg, OtherSetting)
    /\ IsCall => result.ret = SameCall(OtherSetting)
    /\ (result.op = "get_children" /\ ~result.directed) =>
          result.ret = get_ancestors(wg, result.topic, FALSE).ret

C6_Witness ==
    /\ result.op = "get_children"
    /\ ~result.directed
    /\ ~wg.m_optimize_memory
    /\ "value" \in DOMAIN result.ret
    /\ Cardinality(result.ret.value) >= 3

Reversed(path) == [i \in 1..Len(path) |-> path[Len(path) + 1 - i]]

ReversedAll(paths) == [i \in 1..Len(paths) |-> Reversed(paths[i])]

Mirrored(there, back, no_paths) ==
    /\ there.degrees = back.degrees
    /\ there.count = back.count
    /\ IF no_paths THEN there.paths = None /\ back.paths = None
       ELSE Val(there.paths) = sorted(ReversedAll(Val(back.paths)))

\* The latest query asked from target to source.
OtherWay ==
    get_shortest_paths_info(wg, result.target, result.source,
                            result.directed, result.no_paths).ret

\* C7: for known topics the undirected query is symmetric: the same
\* degrees and count from s to t as from t to s, and the paths of the one
\* are the paths of the other, each reversed, sorted again.
C7_UndirectedSymmetric ==
    (IsQuery /\ ~result.directed
        /\ get_standard(result.source) \in TrueTopics(installed)
        /\ get_standard(result.target) \in TrueTopics(installed)) =>
            Mirrored(result.ret, OtherWay, result.no_paths)

C7_Witness ==
    /\ IsSearch
    /\ ~result.directed
    /\ ~result.no_paths
    /\ result.ret.degrees = 5
    /\ result.ret.count >= 2

\* The loop of the latest search, run again to where it ended.
LoopEnd ==
    SearchLoop(SearchInit(wg, Val(wg.m_adj_matrix_directed_csr).shape,
                          Val(wg.m_topic_index_map)[get_standard(result.source)],
                          Val(wg.m_topic_index_map)[get_standard(result.target)],
                          result.no_paths),
               result.directed, result.no_paths)

Linked(E, s, t, directed) ==
    \/ <<s, t>> \in E
    \/ ~directed /\ <<t, s>> \in E

DirectEdgeOnly(st, tgt_idx, s, t) ==
    tgt_idx \in st.bridge_topics =>
        /\ st.deg_sep = 1
        /\ st.bridge_topics = {tgt_idx}
        /\ Linked(TrueEdges(installed), s, t, result.directed)
        /\ QueryPaths = {<<s, t>>}

\* C10: when the target's id is in the bridge at the end of the loop,
\* deg_sep is 1, the bridge is the target alone, the graph holds the edge
\* from source to target (either way when undirected), and [source, target]
\* is the only shortest path.
C10_TargetInBridgeIsDirectEdge ==
    IsSearch =>
        DirectEdgeOnly(LoopEnd,
                       Val(wg.m_topic_index_map)[get_standard(result.target)],
                       get_standard(result.source), get_standard(result.target))

\* The source reaches the target in one step, and in two steps as well.
C10_Witness ==
    /\ IsSearch
    /\ Val(wg.m_topic_index_map)[get_standard(result.target)] \in LoopEnd.bridge_topics
    /\ result.ret.degrees = 1
    /\ \E m \in TrueTopics(installed) :
          /\ m \notin {get_standard(result.source), get_standard(result.target)}
          /\ Linked(TrueEdges(installed), get_standard(result.source), m, result.directed)
          /\ Linked(TrueEdges(installed), m, get_standard(result.target), result.directed)

\* What the early exits return, decided in the order of the code: an
\* unknown source or target first, then source = target.
EarlyExit(s, t, known, no_paths) ==
    IF s \notin known \/ t \notin known
    THEN Triple(-1, 0, IF no_paths THEN None ELSE Some(<<>>))
    ELSE Triple(0, 1, IF no_paths THEN None ELSE Some(<< <<s>> >>))

ExitsEarly(s, t, known) == s \notin known \/ t \notin known \/ s = t

\* C8: a query with an unknown source or target returns (-1, 0, [] or
\* None), and otherwise a query with source = target returns (0, 1,
\* [[source]] or None), whether or not the node has a self-loop; both are
\* returned as values and leave the index and the adjacency store as they
\* were.
C8_EarlyExits ==
    [][(Idle /\ result'.op = "get_shortest_paths_info"
          /\ ExitsEarly(get_standard(result'.source), get_standard(result'.target),
                        TrueTopics(installed))) =>
            /\ result'.ret = EarlyExit(get_standard(result'.source),
                                       get_standard(result'.target),
                                       TrueTopics(installed), result'.no_paths)
            /\ wg' = wg]_vars

\* "d" asked about itself in a graph where "d" has a self-loop.
C8_Witness ==
    /\ result.op = "get_shortest_paths_info"
    /\ get_standard(result.source) = get_standard(result.target)
    /\ <<get_standard(result.source), get_standard(result.source)>> \in TrueEdges(installed)
    /\ result.ret = Triple(0, 1, Some(<< <<get_standard(result.source)>> >>))
    /\ calls = 2

\* An object constructed anew and given the latest graph.
Fresh == set_graph(WikiGraph(wg.m_optimize_memory), installed)

DerivedFrom(cache, derived) == cache # None => cache = derived

CachesDerive(self, fresh) ==
    /\ self.m_adj_matrix_directed_csr = fresh.m_adj_matrix_directed_csr
    /\ self.m_topic_index_map = fresh.m_topic_index_map
    /\ DerivedFrom(self.m_index_topic_map, index_topic_map(fresh).self.m_index_topic_map)
    /\ DerivedFrom(self.m_adj_matrix_directed_csc,
                   adj_matrix_directed_csc(fresh).self.m_adj_matrix_directed_csc)
    /\ DerivedFrom(self.m_adj_matrix_undirected_csr,
                   adj_matrix_undirected_csr(fresh).self.m_adj_matrix_undirected_csr)
    /\ DerivedFrom(self.m_adj_matrix_undirected_csc,
                   adj_matrix_undirected_csc(fresh).self.m_adj_matrix_undirected_csc)

Layered(book, layers, itm) ==
    \A x \in DOMAIN book : \A p \in book[x] :
        /\ TrueDistance(layers, itm[p]) >= 0
        /\ TrueDistance(layers, itm[p]) + 1 = TrueDistance(layers, itm[x])

ReverseEdges(E) == {<<e[2], e[1]>> : e \in E}

\* The work queue of one half is empty at the end, after no more popleft()
\* calls than the completed paths have proper suffixes (depth each).
Drained(half, depth) ==
    /\ ~half.raised
    /\ half.frontier = <<>>
    /\ half.pops <= Len(half.done) * depth

\* The search st has run through the assembly of both halves.
Assembles(st) == ~result.no_paths /\ st.bridge_topics # {}
    /\ Val(wg.m_topic_index_map)[get_standard(result.target)] \notin st.bridge_topics

Terminated(st, src_idx, tgt_idx, itm, E) ==
    /\ st.deg_sep <= 6
    /\ ~result.no_paths =>
          /\ Layered(st.src_ancestors,
                     TrueLayers(E, get_standard(result.source), result.directed), itm)
          /\ Layered(st.tgt_children,
                     TrueLayers(ReverseEdges(E), get_standard(result.target),
                                result.directed), itm)
    /\ Assembles(st) =>
          /\ Drained(AssembleLoop(SeedFrontier(IterOrder(st.bridge_topics)),
                                  st.src_ancestors, src_idx, itm, TRUE),
                     (st.deg_sep + 1) \div 2)
          /\ Drained(AssembleLoop(SeedFrontier(IterOrder(st.bridge_topics)),
                                  st.tgt_children, tgt_idx, itm, FALSE),
                     st.deg_sep \div 2)

\* C11: every search ends: the loop makes at most 6 iterations, every
\* recorded predecessor lies one layer closer to the source and every
\* recorded successor one layer closer to the target, so that both work
\* queues of the path assembly run empty, on graphs with cycles and
\* self-loops too.
C11_SearchTerminates ==
    IsSearch =>
        Terminated(LoopEnd,
                   Val(wg.m_topic_index_map)[get_standard(result.source)],
                   Val(wg.m_topic_index_map)[get_standard(result.target)],
                   Val(wg.m_index_topic_map), TrueEdges(installed))

\* Paths assembled in a graph with a self-loop on a cycle.
C11_Witness ==
    /\ IsSearch
    /\ Assembles(LoopEnd)
    /\ result.ret.degrees >= 4
    /\ result.ret.count >= 2
    /\ \E e \in TrueEdges(installed) :
          /\ e[1] = e[2]
          /\ \E f \in TrueEdges(installed) : f[1] = e[1] /\ f[2] # e[1]

\* The graphs a thread can have in view: the one installed and, while
\* set_graph runs, its argument.
GraphsInView ==
    {installed} \cup (IF Writer.pc = "idle" THEN {} ELSE {Writer.tuples})

\* The object is the object of one graph: its index and forward matrix
\* are that graph's and every filled cache derives from it.
OfOneGraph(self) ==
    \E g \in GraphsInView :
        CachesDerive(self, set_graph(WikiGraph(self.m_optimize_memory), g))

\* C12: set_graph replaces the graph and clears the caches as one step: a
\* query in progress on another thread finds the object of one graph,
\* never the new index or forward matrix beside a cache of the graph
\* before, never an index half filled.
C12_SetGraphAtomic ==
    Reader.pc # "idle" => OfOneGraph(wg)

\* A recorded set that holds the end (source or target) holds nothing else.
EndAlone(book, end_idx) ==
    \A x \in DOMAIN book : end_idx \in book[x] => book[x] = {end_idx}

\* The half was assembled from lists of ids only.
Unmixed(half) == ~half.mixed /\ ~half.raised

\* The latest call searched in enumerate mode: both topics known, different.
IsEnumeration ==
    /\ result.op = "get_shortest_paths_info"
    /\ ~result.no_paths
    /\ get_standard(result.source) \in TrueTopics(installed)
    /\ get_standard(result.target) \in TrueTopics(installed)
    /\ get_standard(result.source) # get_standard(result.target)

NeverRebound(st, src_idx, tgt_idx, itm) ==
    /\ EndAlone(st.src_ancestors, src_idx)
    /\ EndAlone(st.tgt_children, tgt_idx)
    /\ (st.bridge_topics # {} /\ tgt_idx \notin st.bridge_topics) =>
          /\ Unmixed(AssembleLoop(SeedFrontier(IterOrder(st.bridge_topics)),
                                  st.src_ancestors, src_idx, itm, TRUE))
          /\ Unmixed(AssembleLoop(SeedFrontier(IterOrder(st.bridge_topics)),
                                  st.tgt_children, tgt_idx, itm, FALSE))

\* C13: in enumerate mode a predecessor set that holds src_idx is
\* {src_idx} and a successor set that holds tgt_idx is {tgt_idx}; so the
\* assembly loops append no list of names and ids together to their queue
\* after path was rebound, and the call returns its triple.
C13_EndpointSetsAreSingletons ==
    IsEnumeration =>
        /\ "degrees" \in DOMAIN result.ret
        /\ NeverRebound(LoopEnd,
                        Val(wg.m_topic_index_map)[get_standard(result.source)],
                        Val(wg.m_topic_index_map)[get_standard(result.target)],
                        Val(wg.m_index_topic_map))

\* The source is the only predecessor on record of a node that has another
\* edge coming in, and paths were assembled through it.
HasOtherWayIn(book, end_idx, itm, E) ==
    \E x \in DOMAIN book :
        /\ book[x] = {end_idx}
        /\ \E e \in E : e[2] = itm[x] /\ e[1] \notin {itm[end_idx], itm[x]}

C13_Witness ==
    /\ IsEnumeration
    /\ result.directed
    /\ Assembles(LoopEnd)
    /\ result.ret.degrees >= 3
    /\ HasOtherWayIn(LoopEnd.src_ancestors,
                     Val(wg.m_topic_index_map)[get_standard(result.source)],
                     Val(wg.m_index_topic_map), TrueEdges(installed))

====
